---- MODULE Spec2Model ----
(***************************************************************************)
(* Smart Energy Tracker (src/main.py): a Flask application with three      *)
(* routes over one SQLite table energy_usage(id, timestamp, usage) and one *)
(* image file static/usage_plot.png drawn through matplotlib.pyplot.       *)
(*                                                                         *)
(* Strings are tuples of one-character strings.  Time is counted in days;  *)
(* a timestamp is stored, as SQLite stores it, as fixed-width text and is  *)
(* compared as text.                                                       *)
(***************************************************************************)
EXTENDS Integers, Sequences, FiniteSets, TLC

(***************************************************************************)
(* float(request.form['usage'])  -- src/main.py:72                         *)
(***************************************************************************)
Digits == {"0", "1", "2", "3", "4", "5", "6", "7", "8", "9"}

DigitVal(c) ==
    CASE c = "0" -> 0 [] c = "1" -> 1 [] c = "2" -> 2 [] c = "3" -> 3
      [] c = "4" -> 4 [] c = "5" -> 5 [] c = "6" -> 6 [] c = "7" -> 7
      [] c = "8" -> 8 [] c = "9" -> 9

\* str.lower() on the letters the special values are spelled with
Lower(c) ==
    CASE c = "I" -> "i" [] c = "N" -> "n" [] c = "F" -> "f" [] c = "A" -> "a"
      [] c = "T" -> "t" [] c = "Y" -> "y" [] c = "E" -> "e" [] OTHER -> c

LowerStr(s) == [i \in 1..Len(s) |-> Lower(s[i])]

\* float() ignores leading and trailing whitespace
RECURSIVE LStrip(_)
LStrip(s) == IF s # <<>> /\ Head(s) = " " THEN LStrip(Tail(s)) ELSE s

RECURSIVE RStrip(_)
RStrip(s) ==
    IF s # <<>> /\ s[Len(s)] = " " THEN RStrip(SubSeq(s, 1, Len(s) - 1)) ELSE s

Strip(s) == RStrip(LStrip(s))

\* an underscore is accepted only between two digits, and is then dropped
UnderscoresOk(s) ==
    \A i \in 1..Len(s) :
        s[i] = "_" => /\ i > 1 /\ i < Len(s)
                      /\ s[i - 1] \in Digits /\ s[i + 1] \in Digits

DropUnderscores(s) == SelectSeq(s, LAMBDA c : c # "_")

\* the length of the longest prefix of s made of digits
RECURSIVE DigitRun(_)
DigitRun(s) ==
    IF s # <<>> /\ Head(s) \in Digits THEN 1 + DigitRun(Tail(s)) ELSE 0

Drop(s, n) == SubSeq(s, n + 1, Len(s))

RECURSIVE DigitsVal(_)
DigitsVal(s) ==
    IF s = <<>> THEN 0 ELSE 10 * DigitsVal(SubSeq(s, 1, Len(s) - 1)) + DigitVal(s[Len(s)])

HasSign(s) == s # <<>> /\ Head(s) \in {"+", "-"}
Unsigned(s) == IF HasSign(s) THEN Tail(s) ELSE s
IsNeg(s) == s # <<>> /\ Head(s) = "-"

\* a float value: nan, +-inf, or (-1)^neg * mant * 10^exp with mant not a
\* multiple of ten (zero is mant = 0, exp = 0), so that equal values are
\* equal records
NaN == [kind |-> "nan", neg |-> FALSE, mant |-> 0, exp |-> 0]
Inf(neg) == [kind |-> "inf", neg |-> neg, mant |-> 0, exp |-> 0]

RECURSIVE Normal(_, _, _)
Normal(neg, mant, exp) ==
    IF mant = 0 THEN [kind |-> "finite", neg |-> FALSE, mant |-> 0, exp |-> 0]
    ELSE IF mant % 10 = 0 THEN Normal(neg, mant \div 10, exp + 1)
    ELSE [kind |-> "finite", neg |-> neg, mant |-> mant, exp |-> exp]

NoValue == [kind |-> "error", neg |-> FALSE, mant |-> 0, exp |-> 0]

\* the decimal grammar: digits [. digits] [(e|E) [sign] digits], with a digit
\* in the integer or the fraction part, and nothing left over
ParseDecimal(neg, body) ==
    LET nInt  == DigitRun(body)
        afterInt == Drop(body, nInt)
        hasDot == afterInt # <<>> /\ Head(afterInt) = "."
        fracSrc == IF hasDot THEN Tail(afterInt) ELSE afterInt
        nFrac == IF hasDot THEN DigitRun(fracSrc) ELSE 0
        afterFrac == Drop(fracSrc, nFrac)
        hasExp == afterFrac # <<>> /\ Lower(Head(afterFrac)) = "e"
        expSrc == IF hasExp THEN Tail(afterFrac) ELSE afterFrac
        expDigits == Unsigned(expSrc)
        nExp == IF hasExp THEN DigitRun(expDigits) ELSE 0
        rest == IF hasExp THEN Drop(expDigits, nExp) ELSE afterFrac
        e == IF hasExp
             THEN (IF IsNeg(expSrc) THEN -1 ELSE 1) * DigitsVal(SubSeq(expDigits, 1, nExp))
             ELSE 0
        mant == DigitsVal(SubSeq(body, 1, nInt) \o SubSeq(fracSrc, 1, nFrac))
    IN  IF /\ nInt + nFrac > 0
           /\ hasExp => nExp > 0
           /\ rest = <<>>
        THEN Normal(neg, mant, e - nFrac)
        ELSE NoValue

\* float(s): NoValue stands for ValueError
PyFloat(s) ==
    LET t == Strip(s)
        neg == IsNeg(t)
        body == LowerStr(Unsigned(t))
    IN  IF body \in {<<"i","n","f">>, <<"i","n","f","i","n","i","t","y">>} THEN Inf(neg)
        ELSE IF body = <<"n","a","n">> THEN NaN
        ELSE IF ~UnderscoresOk(body) THEN NoValue
        ELSE ParseDecimal(neg, DropUnderscores(body))

Parses(s) == PyFloat(s).kind # "error"

(***************************************************************************)
(* The bounds of the model.                                                *)
(***************************************************************************)
\* the clock runs from StartDay to StartDay + MaxDays
MaxDays == 8
\* submissions are accepted while the table holds fewer rows than this
MaxRows == 2
\* render faults are injected while fewer figures than this are left open
MaxFigs == 1
\* with faults injected, submissions are accepted while the table holds fewer
\* rows than this
MaxFaultRows == 1

\* the default window of get_data, and the window visualize() uses
Days == 7
StartDay == Days

\* the values of the form field 'usage' that requests carry
Inputs ==
    { <<"1">>, <<" ", "1", "_", "0", " ">>, <<"1", "e", "1">>, <<"n", "a", "n">>,
      <<>>, <<"1", "_", "_", "0">>, <<"1", "e">> }

(***************************************************************************)
(* Timestamps.  CURRENT_TIMESTAMP and datetime('now', ...) yield text of a *)
(* fixed width, most significant field first; SQLite compares text.        *)
(***************************************************************************)
DigitChar(d) ==
    CASE d = 0 -> "0" [] d = 1 -> "1" [] d = 2 -> "2" [] d = 3 -> "3"
      [] d = 4 -> "4" [] d = 5 -> "5" [] d = 6 -> "6" [] d = 7 -> "7"
      [] d = 8 -> "8" [] d = 9 -> "9"

\* the text of day t, two digits wide
FormatTs(t) == <<DigitChar((t \div 10) % 10), DigitChar(t % 10)>>

\* pd.to_datetime on that text
ParseTs(s) == DigitsVal(s)

\* SQLite's text comparison a >= b (memcmp order)
RECURSIVE TextGE(_, _)
TextGE(a, b) ==
    IF b = <<>> THEN TRUE
    ELSE IF a = <<>> THEN FALSE
    ELSE IF Head(a) # Head(b) THEN DigitVal(Head(a)) > DigitVal(Head(b))
    ELSE TextGE(Tail(a), Tail(b))

\* datetime('now', '-<days> days')
WindowStart(now, days) == FormatTs(now - days)

(***************************************************************************)
(* The table energy_usage  -- init_db, insert_data, get_data               *)
(***************************************************************************)
\* init_db: CREATE TABLE IF NOT EXISTS leaves an empty table with its
\* AUTOINCREMENT counter (sqlite_sequence) at zero
EmptyDb == [rows |-> <<>>, seq |-> 0]

Null == [kind |-> "null", neg |-> FALSE, mant |-> 0, exp |-> 0]

\* sqlite3 binds a Python float with sqlite3_bind_double, which stores NaN as NULL
BindDouble(v) == IF v.kind = "nan" THEN Null ELSE v

\* usage FLOAT NOT NULL
NotNullOk(v) == v.kind # "null"

\* the row id AUTOINCREMENT assigns: one more than the largest id ever used
NextRowId(db) == db.seq + 1

\* the INSERT statement: TRUE when it raises sqlite3.Error (a storage fault, or
\* the NOT NULL constraint)
InsertRaises(usage, fault) == fault \/ ~NotNullOk(BindDouble(usage))

\* insert_data(usage): the row is written, or sqlite3.Error is caught and
\* printed; either way the function returns None
InsertData(db, now, usage, fault) ==
    IF InsertRaises(usage, fault) THEN db
    ELSE [rows |-> Append(db.rows, [id |-> NextRowId(db),
                                    timestamp |-> FormatTs(now),
                                    usage |-> BindDouble(usage)]),
          seq |-> NextRowId(db)]

\* the comparison written > instead of >=
InWindowStrict(row, now, days) ==
    TextGE(row.timestamp, WindowStart(now, days)) /\ row.timestamp # WindowStart(now, days)

\* WHERE timestamp >= datetime('now', ?)
InWindow(row, now, days) == TextGE(row.timestamp, WindowStart(now, days))

\* the rows the SELECT yields: a scan of the table in rowid order
SelectRecent(db, now, days) == SelectSeq(db.rows, LAMBDA r : InWindow(r, now, days))

\* the columns timestamp, usage of those rows, as a DataFrame
Frame(rows) == [i \in 1..Len(rows) |-> <<rows[i].timestamp, rows[i].usage>>]

\* get_data(days).  fault "sqlite": sqlite3.Error is raised inside the try
\* block and caught, an empty DataFrame is returned.  fault "other": the
\* exception is not a sqlite3.Error (pandas.read_sql_query raises its own
\* DatabaseError for a failed execute) and leaves get_data
GetData(db, now, days, fault) ==
    CASE fault = "none"   -> [raised |-> FALSE, df |-> Frame(SelectRecent(db, now, days))]
      [] fault = "sqlite" -> [raised |-> FALSE, df |-> <<>>]
      [] fault = "other"  -> [raised |-> TRUE, df |-> <<>>]

(***************************************************************************)
(* matplotlib.pyplot: the figures of the process and which one is current  *)
(***************************************************************************)
NoFigures == [figs |-> <<>>, active |-> <<>>]

EmptyFigure == [lines |-> <<>>, labelled |-> FALSE]

FigNums(p) == {p.active[i] : i \in 1..Len(p.active)}

\* pyplot numbers a new figure max(existing numbers) + 1
MaxOf(S) == IF S = {} THEN 0 ELSE LET x == CHOOSE y \in S : \A z \in S : z <= y IN x

Put(f, k, v) == [x \in (DOMAIN f) \cup {k} |-> IF x = k THEN v ELSE f[x]]
Remove(f, k) == [x \in (DOMAIN f) \ {k} |-> f[x]]

\* plt.figure(): a new figure, which becomes the current one
PltFigure(p) ==
    LET n == MaxOf(FigNums(p)) + 1
    IN  [figs |-> Put(p.figs, n, EmptyFigure), active |-> Append(p.active, n)]

\* plt.gcf(): the current figure, created when there is none
Gcf(p) == IF p.active = <<>> THEN PltFigure(p) ELSE p

Current(p) == p.active[Len(p.active)]

\* plt.plot(x, y, marker='o'): one more line in the current figure
PltPlot(p, series) ==
    LET q == Gcf(p)
        c == Current(q)
    IN  [q EXCEPT !.figs = Put(q.figs, c, [q.figs[c] EXCEPT !.lines = Append(@, series)])]

\* plt.title, xlabel, ylabel, xticks, tight_layout: all on the current figure
PltDecorate(p) ==
    LET q == Gcf(p)
        c == Current(q)
    IN  [q EXCEPT !.figs = Put(q.figs, c, [q.figs[c] EXCEPT !.labelled = TRUE])]

\* what plt.savefig writes: the current figure
Rendered(p) ==
    LET q == Gcf(p)
    IN  [kind |-> "complete", lines |-> q.figs[Current(q)].lines,
         labelled |-> q.figs[Current(q)].labelled]

\* plt.close(): destroys the current figure, if there is one; the figure
\* made current before it becomes current again
PltClose(p) ==
    IF p.active = <<>> THEN p
    ELSE [figs |-> Remove(p.figs, Current(p)),
          active |-> SubSeq(p.active, 1, Len(p.active) - 1)]

\* df['timestamp'] = pd.to_datetime(df['timestamp'])
ToDatetime(df) == [i \in 1..Len(df) |-> <<ParseTs(df[i][1]), df[i][2]>>]

ImagePath == "static/usage_plot.png"
NoFile == [kind |-> "absent"]
PartialFile == [kind |-> "partial"]

(***************************************************************************)
(* The routes                                                              *)
(***************************************************************************)
Json(code, body) == [code |-> code, body |-> body]

Page == Json(200, [page |-> "index.html"])
Added == Json(200, [status |-> "success", message |-> "Data added successfully!"])
InvalidInput ==
    Json(400, [status |-> "error",
               message |-> "Invalid input! Please enter a numeric value."])
NoData ==
    Json(400, [status |-> "error", message |-> "No data available for visualization."])
RenderFailed ==
    Json(500, [status |-> "error", message |-> "Failed to generate visualization."])
Drawn == Json(200, [status |-> "success", image_path |-> ImagePath])

\* submit() with the ValueError handler storing 0.0 instead of answering 400
SubmitOutcomeDefaultZero(db, now, s, fault) ==
    LET parsed == PyFloat(s)
        usage == IF parsed.kind = "error" THEN Normal(FALSE, 0, 0) ELSE parsed
    IN  [db   |-> InsertData(db, now, usage, fault),
         resp |-> Added,
         log  |-> IF InsertRaises(usage, fault) THEN "insert error" ELSE "inserted"]

\* submit(): float() raises ValueError -> 400; otherwise insert_data is called
\* and, whatever it did, the success response is returned.  log is what
\* insert_data printed.
SubmitOutcome(db, now, s, fault) ==
    LET usage == PyFloat(s)
    IN  IF usage.kind = "error"
        THEN [db |-> db, resp |-> InvalidInput, log |-> "none"]
        ELSE [db   |-> InsertData(db, now, usage, fault),
              resp |-> Added,
              log  |-> IF InsertRaises(usage, fault) THEN "insert error" ELSE "inserted"]

\* visualize() without the df.empty check
VisualizeOutcomeNoEmptyCheck(db, now, p, img, qfault, rfault) ==
    LET got == GetData(db, now, Days, qfault)
        p1  == PltFigure(p)
        p2  == PltDecorate(PltPlot(p1, ToDatetime(got.df)))
    IN  IF got.raised THEN [plt |-> p, image |-> img, resp |-> RenderFailed]
        ELSE IF rfault = "plot" THEN [plt |-> p1, image |-> img, resp |-> RenderFailed]
        ELSE IF rfault = "save" THEN [plt |-> p2, image |-> PartialFile, resp |-> RenderFailed]
        ELSE [plt |-> PltClose(p2), image |-> Rendered(p2), resp |-> Drawn]

\* visualize() with savefig called on the new figure before it is drawn
VisualizeOutcomeSaveFirst(db, now, p, img, qfault, rfault) ==
    LET got == GetData(db, now, Days, qfault)
        p1  == PltFigure(p)
        p2  == PltDecorate(PltPlot(p1, ToDatetime(got.df)))
    IN  IF got.raised THEN [plt |-> p, image |-> img, resp |-> RenderFailed]
        ELSE IF got.df = <<>> THEN [plt |-> p, image |-> img, resp |-> NoData]
        ELSE IF rfault = "plot" THEN [plt |-> p1, image |-> Rendered(p1), resp |-> RenderFailed]
        ELSE IF rfault = "save" THEN [plt |-> p2, image |-> PartialFile, resp |-> RenderFailed]
        ELSE [plt |-> PltClose(p2), image |-> Rendered(p1), resp |-> Drawn]

\* visualize(), as one uninterrupted run.  qfault is the fault get_data meets,
\* rfault the one the drawing meets: "plot" before savefig has opened the
\* file, "save" while savefig is writing it.
VisualizeOutcome(db, now, p, img, qfault, rfault) ==
    LET got == GetData(db, now, Days, qfault)
        p1  == PltFigure(p)
        p2  == PltDecorate(PltPlot(p1, ToDatetime(got.df)))
    IN  IF got.raised THEN [plt |-> p, image |-> img, resp |-> RenderFailed]
        ELSE IF got.df = <<>> THEN [plt |-> p, image |-> img, resp |-> NoData]
        ELSE IF rfault = "plot" THEN [plt |-> p1, image |-> img, resp |-> RenderFailed]
        ELSE IF rfault = "save" THEN [plt |-> p2, image |-> PartialFile, resp |-> RenderFailed]
        ELSE [plt |-> PltClose(p2), image |-> Rendered(p2), resp |-> Drawn]

(***************************************************************************)
(* State                                                                   *)
(***************************************************************************)
VARIABLES
    now,      \* the clock, in days
    db,       \* energy.db: the rows of energy_usage and its AUTOINCREMENT counter
    image,    \* the file static/usage_plot.png
    plt,      \* pyplot's figures
    last,     \* the last request answered: what it met, and its response
    before,   \* the rows and the image file as that request found them
    acked,    \* the day /submit last answered with success, 0 when it never has
    pc,       \* for each request in flight, the statement of visualize() it is at
    frame,    \* for each request in flight, its local df
    wrote     \* for each request, what its savefig wrote, and for which df

vars == <<now, db, image, plt, last, before, acked, pc, frame, wrote>>

Requests == {"r1", "r2"}

NoRequest ==
    [route |-> "none", input |-> <<>>, at |-> StartDay, wfault |-> FALSE,
     qfault |-> "none", rfault |-> "none", log |-> "none", resp |-> Page]

NothingWritten == [df |-> <<>>, image |-> NoFile, answered |-> FALSE]

Init ==
    /\ now = StartDay
    /\ db = EmptyDb
    /\ image = NoFile
    /\ plt = NoFigures
    /\ last = NoRequest
    /\ before = [rows |-> <<>>, image |-> NoFile]
    /\ acked = 0
    /\ pc = [r \in Requests |-> "idle"]
    /\ frame = [r \in Requests |-> <<>>]
    /\ wrote = [r \in Requests |-> NothingWritten]

Found == before' = [rows |-> db.rows, image |-> image]

\* a day passes
Tick ==
    /\ now < StartDay + MaxDays
    /\ now' = now + 1
    /\ UNCHANGED <<db, image, plt, last, before, acked, pc, frame, wrote>>

\* GET /
Home ==
    /\ last' = [NoRequest EXCEPT !.route = "home", !.at = now]
    /\ Found
    /\ UNCHANGED <<now, db, image, plt, acked, pc, frame, wrote>>

\* POST /submit with usage = s; fault: the INSERT meets a storage fault
Submit(s, fault) ==
    /\ Len(db.rows) < MaxRows
    /\ fault => Parses(s)
    /\ LET o == SubmitOutcome(db, now, s, fault)
       IN  /\ db' = o.db
           /\ last' = [NoRequest EXCEPT !.route = "submit", !.input = s, !.at = now,
                                        !.wfault = fault, !.log = o.log, !.resp = o.resp]
           /\ acked' = IF o.resp = Added THEN now ELSE acked
    /\ Found
    /\ UNCHANGED <<now, image, plt, pc, frame, wrote>>

\* the rendering part of visualize() is reached
Renders(qfault) ==
    LET got == GetData(db, now, Days, qfault) IN ~got.raised /\ got.df # <<>>

\* GET /visualize, served without another request in between.  A render
\* fault needs the rendering to run.
Visualize(qfault, rfault) ==
    /\ \A r \in Requests : pc[r] = "idle"
    /\ rfault # "none" => Renders(qfault) /\ Len(plt.active) < MaxFigs
    /\ LET o == VisualizeOutcome(db, now, plt, image, qfault, rfault)
       IN  /\ plt' = o.plt
           /\ image' = o.image
           /\ last' = [NoRequest EXCEPT !.route = "visualize", !.at = now,
                                        !.qfault = qfault, !.rfault = rfault,
                                        !.resp = o.resp]
    /\ Found
    /\ UNCHANGED <<now, db, acked, pc, frame, wrote>>

\* requests served one at a time, no faults
Next ==
    \/ Tick
    \/ Home
    \/ \E s \in Inputs : Submit(s, FALSE)
    \/ Visualize("none", "none")

Spec == Init /\ [][Next]_vars

\* requests served one at a time; the storage and the renderer may fail
FaultInputs == {<<"1">>, <<"n", "a", "n">>, <<"1", "e">>}

NextFault ==
    \/ Tick
    \/ \E s \in FaultInputs, f \in BOOLEAN : Len(db.rows) < MaxFaultRows /\ Submit(s, f)
    \/ \E q \in {"none", "sqlite", "other"}, r \in {"none", "plot", "save"} : Visualize(q, r)

SpecFault == Init /\ [][NextFault]_vars

(***************************************************************************)
(* GET /visualize statement by statement, for requests that run            *)
(* interleaved in one process (app.run serves each request on a thread)    *)
(***************************************************************************)
Answer(resp) ==
    /\ last' = [NoRequest EXCEPT !.route = "visualize", !.at = now, !.resp = resp]
    /\ Found

\* df = get_data(); if df.empty: return 400
VFetch(r) ==
    /\ pc[r] = "idle"
    /\ LET got == GetData(db, now, Days, "none")
       IN  IF got.df = <<>>
           THEN /\ Answer(NoData)
                /\ pc' = [pc EXCEPT ![r] = "done"]
                /\ UNCHANGED frame
           ELSE /\ frame' = [frame EXCEPT ![r] = got.df]
                /\ pc' = [pc EXCEPT ![r] = "figure"]
                /\ UNCHANGED <<last, before>>
    /\ wrote' = [wrote EXCEPT ![r] = NothingWritten]
    /\ UNCHANGED <<now, db, image, plt, acked>>

\* plt.figure(figsize=(10, 6))
VFigure(r) ==
    /\ pc[r] = "figure"
    /\ plt' = PltFigure(plt)
    /\ pc' = [pc EXCEPT ![r] = "plot"]
    /\ UNCHANGED <<now, db, image, last, before, acked, frame, wrote>>

\* df['timestamp'] = pd.to_datetime(...); plt.plot(df['timestamp'], df['usage'], ...)
VPlot(r) ==
    /\ pc[r] = "plot"
    /\ plt' = PltPlot(plt, ToDatetime(frame[r]))
    /\ pc' = [pc EXCEPT ![r] = "decorate"]
    /\ UNCHANGED <<now, db, image, last, before, acked, frame, wrote>>

\* plt.title ... plt.tight_layout()
VDecorate(r) ==
    /\ pc[r] = "decorate"
    /\ plt' = PltDecorate(plt)
    /\ pc' = [pc EXCEPT ![r] = "savefig"]
    /\ UNCHANGED <<now, db, image, last, before, acked, frame, wrote>>

\* plt.savefig(image_path)
VSavefig(r) ==
    /\ pc[r] = "savefig"
    /\ image' = Rendered(plt)
    /\ plt' = Gcf(plt)
    /\ wrote' = [wrote EXCEPT ![r] = [df |-> frame[r], image |-> Rendered(plt),
                                      answered |-> FALSE]]
    /\ pc' = [pc EXCEPT ![r] = "close"]
    /\ UNCHANGED <<now, db, last, before, acked, frame>>

\* plt.close(); return jsonify(success)
VClose(r) ==
    /\ pc[r] = "close"
    /\ plt' = PltClose(plt)
    /\ Answer(Drawn)
    /\ wrote' = [wrote EXCEPT ![r].answered = TRUE]
    /\ pc' = [pc EXCEPT ![r] = "done"]
    /\ UNCHANGED <<now, db, image, acked, frame>>

\* two requests, with submissions arriving at any point between their statements
ConcInputs == {<<"1">>, <<"1", "e", "1">>}

NextConc ==
    \/ \E s \in ConcInputs : Submit(s, FALSE)
    \/ \E r \in Requests : VFetch(r)
    \/ \E r \in Requests : VFigure(r)
    \/ \E r \in Requests : VPlot(r)
    \/ \E r \in Requests : VDecorate(r)
    \/ \E r \in Requests : VSavefig(r)
    \/ \E r \in Requests : VClose(r)

SpecConc == Init /\ [][NextConc]_vars
(***************************************************************************)
(* The claims                                                              *)
(***************************************************************************)
Count(rows) == Len(rows)

\* C1: for every string that parses as a number, POST /submit answers with
\* the success response and the table holds exactly one row more than before.
C1_NumericSubmitAddsOne ==
    (last.route = "submit" /\ Parses(last.input))
        => (last.resp = Added /\ Count(db.rows) = Count(before.rows) + 1)

\* C2: when the INSERT of a submission fails, the response is an error and not
\* the success acknowledgment; a success response means one row was stored.
C2_WriteFailureSurfaced ==
    last.route = "submit"
        => /\ last.log = "insert error" => last.resp.body.status = "error"
           /\ last.resp.body.status = "success"
                  => /\ Count(db.rows) = Count(before.rows) + 1
                     /\ SubSeq(db.rows, 1, Count(before.rows)) = before.rows

\* C3: for every string that does not parse as a number, POST /submit answers
\* 400 with the invalid-input message and the stored readings are unchanged.
C3_InvalidInputRejected ==
    (last.route = "submit" /\ ~Parses(last.input))
        => (last.resp = InvalidInput /\ db.rows = before.rows)

C3_Witness ==
    /\ last.route = "submit" /\ ~Parses(last.input) /\ last.input # <<>>
    /\ last.resp.code = 400 /\ db.rows # <<>>

\* C4: once /submit has answered success within the last 7 days, GET /visualize
\* answers success with the image path and the image file exists.
C4_VisualizeAfterAck ==
    (last.route = "visualize" /\ acked > 0 /\ acked >= last.at - Days)
        => /\ last.resp = Drawn
           /\ image.kind = "complete"

C6_EmptyStoreNoData ==
    (last.route = "visualize" /\ before.rows = <<>>)
        => (last.resp = NoData /\ image = before.image)

C6_Witness ==
    last.route = "visualize" /\ before.rows = <<>> /\ last.resp.code = 400

IdsUniqueIncreasing(rows) ==
    \A i, j \in 1..Len(rows) : i < j => rows[i].id < rows[j].id

\* C7: ids are unique and strictly increasing in insertion order, and two
\* successive submissions of the same value that both answered success leave
\* two distinct rows, both stored and both returned by get_data.
C7_TwoSubmitsTwoReadings ==
    [][ ( /\ last.route = "submit" /\ last.resp = Added
          /\ last'.route = "submit" /\ last'.resp = Added
          /\ now' = now
          /\ last.at >= now - Days
          /\ PyFloat(last.input) = PyFloat(last'.input) )
        => /\ IdsUniqueIncreasing(db'.rows)
           /\ LET recent == SelectRecent(db', now', Days)
              IN  \E i, j \in 1..Len(recent) :
                     /\ recent[i].id < recent[j].id
                     /\ recent[i].usage = PyFloat(last.input)
                     /\ recent[j].usage = PyFloat(last'.input) ]_vars

\* C8: when the query of get_data fails during GET /visualize, the request
\* answers 400 "No data available for visualization." and writes no image.
C8_QueryFaultIsNoData ==
    (last.route = "visualize" /\ last.qfault # "none")
        => (last.resp = NoData /\ image = before.image)

\* C9 as stated: when rendering fails the request answers 500 and the image
\* file is absent or complete, never partial.
C9_NoPartialFile ==
    (last.route = "visualize" /\ last.rfault # "none")
        => (last.resp = RenderFailed /\ image.kind # "partial")

\* C9, amended: when rendering fails the request answers 500; a fault before
\* savefig has opened the file leaves the file exactly as it was, a fault
\* while savefig writes leaves a partial file.
C9_RenderFaultOutcome ==
    (last.route = "visualize" /\ last.rfault # "none")
        => /\ last.resp = RenderFailed
           /\ last.rfault = "plot" => image = before.image
           /\ last.rfault = "save" => image = PartialFile

C9_Witness ==
    /\ last.route = "visualize" /\ last.rfault = "save"
    /\ before.image.kind = "complete" /\ image = PartialFile

\* C10: of two interleaved GET /visualize requests, each one that answers
\* success has saved an image holding its own data series and nothing else.
C10_OwnSeriesOnly ==
    \A r \in Requests :
        wrote[r].answered
            => wrote[r].image = [kind |-> "complete",
                                 lines |-> <<ToDatetime(wrote[r].df)>>,
                                 labelled |-> TRUE]
====
